---- MODULE Spec2Model ----
(***************************************************************************)
(* Model of backend/main.py: the /ws/chat receive loop (websocket_chat),   *)
(* the two streaming generators (generate_groq_response,                   *)
(* generate_gemini_response), the ConnectionManager and the HTTP           *)
(* endpoints that read or write the process-wide state.                    *)
(*                                                                         *)
(* Every connection runs the coroutine websocket_chat.  The coroutines     *)
(* share one event loop, so a step of one coroutine runs without           *)
(* interruption from one suspension point (an await) to the next; the      *)
(* actions below are exactly these pieces.  pc[c] names the await at which *)
(* the coroutine of connection c is parked:                                *)
(*   "connecting"   before manager.connect                       (l. 202)  *)
(*   "receive"      await websocket.receive_json()               (l. 207)  *)
(*   "thinking"     await send of the thinking frame             (l. 236)  *)
(*   "groq"         await create / next chunk of the Groq stream (l. 143)  *)
(*   "gemini"       Gemini stream, called from line 249          (l. 186)  *)
(*   "fallback"     Gemini stream, called from line 269          (l. 186)  *)
(*   "complete"     await send of the complete frame             (l. 252)  *)
(*   "fb_complete"  await send of the complete frame             (l. 270)  *)
(*   "closed"       the coroutine has returned                   (l. 305)  *)
(* Sends are modelled as succeeding (the transport stays open during a     *)
(* turn); the transport fails or the peer leaves at receive_json.          *)
(*                                                                         *)
(* Text is a sequence of one-character strings, so that concatenation,     *)
(* emptiness and order are what they are in the program.                   *)
(*                                                                         *)
(* The history variables record what a client and a provider can see of    *)
(* one connection: the frames sent to it, the requests made for it.  They  *)
(* are kept for the connections in Observed; every connection runs the     *)
(* same code, so what holds of one holds of each.                          *)
(***************************************************************************)
EXTENDS Integers, Sequences, FiniteSets, TLC

\* ------------------------------------------------------------------ bounds
\* Most entries the history may hold before new non-empty messages stop.
MaxHistory == 2
\* Most chunks the providers produce during one turn.
MaxChunks == 2
\* The same two bounds where two connections run at once.
SharedMaxHistory == 3
SharedMaxChunks == 1
\* Most non-empty messages a connection sends where its turns are counted,
\* and the history bound there.
MaxTurns == 2
TurnsMaxHistory == 4
\* The history and chunk bounds where the registry is followed.
RegistryMaxHistory == 2
RegistryMaxChunks == 1
\* The same where every turn is followed to its end.
LiveMaxHistory == 2
LiveMaxChunks == 1

\* -------------------------------------------------------- program constants
\* messages[-10:]
HistoryWindow == 10

SYSTEM_PROMPT == "You are Sara, a Lead Engineer at AdxReel. ..."

\* ------------------------------------------------------------------ inputs
Conns == {1, 2}
\* the connections whose traffic the history variables record
Observed == {1}
\* content of a message frame: empty, or some text
UserTexts == {<<>>, <<"x">>}
\* chunk.choices[0].delta.content / chunk.text: empty, or some text
Chunks == {<<>>, <<"a">>, <<"b">>}
\* the same where two connections run at once
SharedChunks == {<<>>, <<"a">>}
RegistryChunks == {<<"a">>}
\* datetime.now().isoformat()
Timestamps == {"t1"}
\* POST /api/configure parameters
ProviderNames == {"groq", "Groq", "gemini", "other"}
ApiKeys == {"good-key", "bad-key"}

\* An inbound websocket text frame, as receive_json sees it: json says whether
\* the text parses to a JSON object, to another JSON value, or not at all; for
\* an object, has_type/has_content say whether the key is present.
Frame(j, ht, t, hc, c) ==
    [json |-> j, has_type |-> ht, type |-> t, has_content |-> hc, content |-> c]

InboundFrames ==
    {Frame("object", TRUE, "message", TRUE, t) : t \in UserTexts}
    \cup {Frame("object", FALSE, "", TRUE, t) : t \in UserTexts \ {<<>>}}
    \cup {Frame("object", TRUE, "reset", FALSE, <<>>),
          Frame("object", TRUE, "ping", FALSE, <<>>),
          Frame("object", TRUE, "bogus", FALSE, <<>>),
          Frame("array", FALSE, "", FALSE, <<>>),
          Frame("invalid", FALSE, "", FALSE, <<>>)}

NoFrame == Frame("none", FALSE, "", FALSE, <<>>)

VARIABLES
    \* program state
    conversation_history,   \* the module-level list (l. 78)
    groq_client,            \* TRUE iff groq_client is not None (l. 46-51)
    gemini_model,           \* TRUE iff gemini_model is not None (l. 53-59)
    active_connections,     \* manager.active_connections (l. 83)
    pc,                     \* where each coroutine is parked
    full_response,          \* the running generator's local full_response
    exc,                    \* the exception e bound at line 263
    configure_response,     \* the last response of POST /api/configure
    \* history variables (observations, read by no action)
    out,                    \* frames sent to c since its last inbound frame
    nchunks,                \* chunks the providers produced in c's current turn
    origin,                 \* origin[i]: the connection that appended entry i
    rx,                     \* flips each time c's receive_json returns or raises on a frame
    last_frame,             \* the last inbound frame of c
    calls,                  \* the providers invoked in c's current turn, in order
    request,                \* the request a provider is serving for c now
    produced,               \* the chunks themselves, in the order produced
    failed,                 \* providers that raised in c's current turn
    grew,                   \* net growth of the history by c's steps since its last frame
    tally,                  \* what c's turns have produced since it connected
    configure_request,      \* the last request to POST /api/configure
    turn_config             \* the provider clients as they were at c's last inbound frame

progvars == <<conversation_history, groq_client, gemini_model, active_connections,
              pc, full_response, exc, configure_response>>
histvars == <<out, nchunks, origin, rx, last_frame, calls, request, produced,
              failed, grew, tally, configure_request,
              turn_config>>
vars == <<progvars, histvars>>

\* ----------------------------------------------------------------- helpers
\* the value a history variable takes for c
Seen(c, new, old) == IF c \in Observed THEN new ELSE old

\* data.get(key, default) on the decoded frame
GetType(data) == IF data.has_type THEN data.type ELSE "message"
GetContent(data) == IF data.has_content THEN data.content ELSE <<>>

\* messages[-10:]
LastN(messages) ==
    LET n == Len(messages)
        start == IF n - HistoryWindow > 0 THEN n - HistoryWindow ELSE 0
    IN  SubSeq(messages, start + 1, n)

\* list.remove(x): drops the first occurrence
RECURSIVE ListRemove(_, _)
ListRemove(s, x) ==
    IF s = <<>> THEN <<>>
    ELSE IF Head(s) = x THEN Tail(s)
    ELSE <<Head(s)>> \o ListRemove(Tail(s), x)

\* ConnectionManager.send_message: the frame joins the connection's outbound stream
send_message(sent, message) == Append(sent, message)

ThinkingFrame == [type |-> "thinking", content |-> <<"Thinking...">>]
TokenFrame(content) == [type |-> "token", content |-> content]
CompleteFrame(content) == [type |-> "complete", content |-> content]
ErrorFrame(content) == [type |-> "error", content |-> content]
ResetCompleteFrame == [type |-> "reset_complete", content |-> <<"Conversation reset">>]
PongFrame(now) == [type |-> "pong", timestamp |-> now]

EmptyMessageError == ErrorFrame(<<"Empty message received">>)
NoProviderError == ErrorFrame(<<"No LLM provider configured. Please set an API key.">>)
GenerationError(e) == ErrorFrame(<<"Error generating response: ", e>>)

UserMessage(content) == [role |-> "user", content |-> content]
AssistantMessage(content) == [role |-> "assistant", content |-> content]

\* groq_messages: the system prompt, then the window with roles mapped
groq_messages(messages) ==
    LET window == LastN(messages)
    IN  <<[role |-> "system", content |-> <<SYSTEM_PROMPT>>]>>
        \o [i \in 1..Len(window) |->
              [role |-> IF window[i].role = "user" THEN "user" ELSE "assistant",
               content |-> window[i].content]]

\* context: the prompt, one labelled line per message of the window, the cue
RECURSIVE TranscriptLines(_)
TranscriptLines(window) ==
    IF window = <<>> THEN <<>>
    ELSE <<IF Head(window).role = "user" THEN "Interviewer" ELSE "You", ": ">>
         \o Head(window).content \o <<"\n">> \o TranscriptLines(Tail(window))

gemini_context(messages) ==
    <<SYSTEM_PROMPT, "\n\nConversation so far:\n">>
    \o TranscriptLines(LastN(messages)) \o <<"\nYou:">>

\* One provider invocation: who is called, the messages the request is built
\* from, the connections these came from, and the request itself.
GroqCall(messages, from) ==
    [provider |-> "groq", window |-> LastN(messages), from |-> LastN(from),
     payload |-> groq_messages(messages)]
GeminiCall(messages, from) ==
    [provider |-> "gemini", window |-> LastN(messages), from |-> LastN(from),
     payload |-> gemini_context(messages)]
NoRequest == [provider |-> "none", window |-> <<>>, from |-> <<>>, payload |-> <<>>]

Generating == {"thinking", "groq", "gemini", "fallback", "complete", "fb_complete"}

\* no request to POST /api/configure yet
NoConfigure == [api_key |-> "none", provider |-> "none"]

\* nothing counted yet
NoTurns == [turns |-> 0, thinking |-> 0, complete |-> 0, errors |-> 0, assistant |-> 0]

\* -------------------------------------------------------------------- Init
\* The state after the module has been imported: each client is there or not,
\* as the environment variables say; nobody is connected.
Init ==
    /\ conversation_history = <<>>
    /\ groq_client \in BOOLEAN
    /\ gemini_model \in BOOLEAN
    /\ active_connections = <<>>
    /\ pc = [c \in Conns |-> "connecting"]
    /\ full_response = [c \in Conns |-> <<>>]
    /\ exc = [c \in Conns |-> "none"]
    /\ configure_response = "none"
    /\ out = [c \in Conns |-> <<>>]
    /\ nchunks = [c \in Conns |-> 0]
    /\ origin = <<>>
    /\ rx = [c \in Conns |-> FALSE]
    /\ last_frame = [c \in Conns |-> NoFrame]
    /\ calls = [c \in Conns |-> <<>>]
    /\ request = [c \in Conns |-> NoRequest]
    /\ produced = [c \in Conns |-> <<>>]
    /\ failed = [c \in Conns |-> {}]
    /\ grew = [c \in Conns |-> 0]
    /\ tally = [c \in Conns |-> NoTurns]
    /\ configure_request = NoConfigure
    /\ turn_config = [c \in Conns |-> [groq |-> FALSE, gemini |-> FALSE]]

config == <<groq_client, gemini_model, configure_response>>
history == <<conversation_history, origin>>
\* what is recorded of a turn's generation
turn == <<nchunks, calls, request, produced, failed, turn_config>>

\* ------------------------------------------------------ connection lifecycle
\* manager.connect: accept, then register
Connect(c) ==
    /\ pc[c] = "connecting"
    /\ active_connections' = Append(active_connections, c)
    /\ pc' = [pc EXCEPT ![c] = "receive"]
    /\ UNCHANGED <<config, history, full_response, exc, out, rx, last_frame, turn>>

\* Disconnected without line 91: the coroutine returns, the entry stays
Disconnected_stays_registered(c) ==
    /\ pc' = [pc EXCEPT ![c] = "closed"]
    /\ UNCHANGED <<config, history, active_connections, full_response, exc, out, turn>>

\* manager.disconnect, then the coroutine returns
Disconnected(c) ==
    /\ active_connections' = ListRemove(active_connections, c)
    /\ pc' = [pc EXCEPT ![c] = "closed"]
    /\ UNCHANGED <<config, history, full_response, exc, out, turn>>

\* receive_json raises WebSocketDisconnect: the peer has closed (lines 301-302)
PeerDisconnect(c) ==
    /\ pc[c] = "receive"
    /\ Disconnected(c)
    /\ UNCHANGED <<rx, last_frame>>

\* receive_json raises because the transport failed (lines 303-305)
TransportError(c) ==
    /\ pc[c] = "receive"
    /\ Disconnected(c)
    /\ UNCHANGED <<rx, last_frame>>

\* c's receive_json has taken frame f off the wire: a new reaction begins
Received(c, f) ==
    /\ rx' = [rx EXCEPT ![c] = Seen(c, ~@, @)]
    /\ last_frame' = [last_frame EXCEPT ![c] = Seen(c, f, @)]

\* the first frame sent in reaction to the inbound frame
Reply(c, frames) ==
    /\ out' = [out EXCEPT ![c] = Seen(c, frames, @)]
    /\ nchunks' = [nchunks EXCEPT ![c] = 0]
    /\ calls' = [calls EXCEPT ![c] = <<>>]
    /\ request' = [request EXCEPT ![c] = NoRequest]
    /\ produced' = [produced EXCEPT ![c] = <<>>]
    /\ failed' = [failed EXCEPT ![c] = {}]
    /\ turn_config' = [turn_config EXCEPT ![c] =
                          Seen(c, [groq |-> groq_client, gemini |-> gemini_model], @)]

\* A frame that is no JSON object: json.loads raises inside receive_json, or
\* data.get raises on a value that is no dict; the handler of line 303 runs.
ReceiveUndecodable(c, f) ==
    /\ pc[c] = "receive"
    /\ f.json # "object"
    /\ Received(c, f)
    /\ Reply(c, <<>>)
    /\ active_connections' = ListRemove(active_connections, c)
    /\ pc' = [pc EXCEPT ![c] = "closed"]
    /\ UNCHANGED <<config, history, full_response, exc>>

\* ------------------------------------------------------------ receive loop
\* ReceiveMessage with lines 221-225 moved above the check of line 214: the
\* user message is stored before it is found empty
ReceiveMessage_appends_first(c, f) ==
    /\ pc[c] = "receive"
    /\ f.json = "object"
    /\ GetType(f) = "message"
    /\ Received(c, f)
    /\ LET user_message == GetContent(f) IN
       /\ conversation_history' =
              Append(conversation_history, UserMessage(user_message))
       /\ origin' = Append(origin, c)
       /\ IF user_message = <<>>
          THEN /\ Reply(c, send_message(<<>>, EmptyMessageError))
               /\ UNCHANGED pc
          ELSE IF ~groq_client /\ ~gemini_model
          THEN /\ Reply(c, send_message(<<>>, NoProviderError))
               /\ UNCHANGED pc
          ELSE /\ Reply(c, send_message(<<>>, ThinkingFrame))
               /\ pc' = [pc EXCEPT ![c] = "thinking"]
    /\ UNCHANGED <<config, active_connections, full_response, exc>>

\* ReceiveMessage without lines 214-219: an empty message is a message like
\* any other
ReceiveMessage_no_empty_check(c, f) ==
    /\ pc[c] = "receive"
    /\ f.json = "object"
    /\ GetType(f) = "message"
    /\ Received(c, f)
    /\ LET user_message == GetContent(f) IN
       /\ conversation_history' =
              Append(conversation_history, UserMessage(user_message))
       /\ origin' = Append(origin, c)
       /\ IF ~groq_client /\ ~gemini_model
          THEN /\ Reply(c, send_message(<<>>, NoProviderError))
               /\ UNCHANGED pc
          ELSE /\ Reply(c, send_message(<<>>, ThinkingFrame))
               /\ pc' = [pc EXCEPT ![c] = "thinking"]
    /\ UNCHANGED <<config, active_connections, full_response, exc>>

\* ReceiveMessage with the check of line 228 moved above line 221: nothing is
\* stored when no provider is configured
ReceiveMessage_checks_first(c, f) ==
    /\ pc[c] = "receive"
    /\ f.json = "object"
    /\ GetType(f) = "message"
    /\ Received(c, f)
    /\ LET user_message == GetContent(f) IN
       IF user_message = <<>>
       THEN /\ Reply(c, send_message(<<>>, EmptyMessageError))
            /\ UNCHANGED <<history, pc>>
       ELSE IF ~groq_client /\ ~gemini_model
       THEN /\ Reply(c, send_message(<<>>, NoProviderError))
            /\ UNCHANGED <<history, pc>>
       ELSE /\ conversation_history' =
                   Append(conversation_history, UserMessage(user_message))
            /\ origin' = Append(origin, c)
            /\ Reply(c, send_message(<<>>, ThinkingFrame))
            /\ pc' = [pc EXCEPT ![c] = "thinking"]
    /\ UNCHANGED <<config, active_connections, full_response, exc>>

\* {"type": "message"} (or no "type" key: data.get's default), lines 210-239
ReceiveMessage(c, f) ==
    /\ pc[c] = "receive"
    /\ f.json = "object"
    /\ GetType(f) = "message"
    /\ Received(c, f)
    /\ LET user_message == GetContent(f) IN
       IF user_message = <<>>
       THEN \* lines 214-219
            /\ Reply(c, send_message(<<>>, EmptyMessageError))
            /\ UNCHANGED <<history, pc>>
       ELSE \* lines 221-239
            /\ conversation_history' =
                   Append(conversation_history, UserMessage(user_message))
            /\ origin' = Append(origin, c)
            /\ IF ~groq_client /\ ~gemini_model
               THEN /\ Reply(c, send_message(<<>>, NoProviderError))
                    /\ UNCHANGED pc
               ELSE /\ Reply(c, send_message(<<>>, ThinkingFrame))
                    /\ pc' = [pc EXCEPT ![c] = "thinking"]
    /\ UNCHANGED <<config, active_connections, full_response, exc>>

\* {"type": "reset"}, lines 287-293
ReceiveReset(c, f) ==
    /\ pc[c] = "receive"
    /\ f.json = "object"
    /\ GetType(f) = "reset"
    /\ Received(c, f)
    /\ conversation_history' = <<>>
    /\ origin' = <<>>
    /\ Reply(c, send_message(<<>>, ResetCompleteFrame))
    /\ UNCHANGED <<config, active_connections, pc, full_response, exc>>

\* ReceivePing with the conversation_history.clear() of line 289 in it
ReceivePing_clears(c, f, now) ==
    /\ pc[c] = "receive"
    /\ f.json = "object"
    /\ GetType(f) = "ping"
    /\ Received(c, f)
    /\ conversation_history' = <<>>
    /\ origin' = <<>>
    /\ Reply(c, send_message(<<>>, PongFrame(now)))
    /\ UNCHANGED <<config, active_connections, pc, full_response, exc>>

\* {"type": "ping"}, lines 295-299
ReceivePing(c, f, now) ==
    /\ pc[c] = "receive"
    /\ f.json = "object"
    /\ GetType(f) = "ping"
    /\ Received(c, f)
    /\ Reply(c, send_message(<<>>, PongFrame(now)))
    /\ UNCHANGED <<config, history, active_connections, pc, full_response, exc>>

\* any other "type": no branch of lines 210-299 matches, the loop goes on
ReceiveOther(c, f) ==
    /\ pc[c] = "receive"
    /\ f.json = "object"
    /\ GetType(f) \notin {"message", "reset", "ping"}
    /\ Received(c, f)
    /\ Reply(c, <<>>)
    /\ UNCHANGED <<config, history, active_connections, pc, full_response, exc>>

\* --------------------------------------------------------------- generation
\* generate_groq_response up to its first await: the request is built from the
\* history as it is now (lines 134-149), full_response = "" (line 151)
StartGroq(c) ==
    /\ calls' = [calls EXCEPT ![c] = Seen(c, Append(@, "groq"), @)]
    /\ request' = [request EXCEPT ![c] =
                      Seen(c, GroqCall(conversation_history, origin), @)]
    /\ full_response' = [full_response EXCEPT ![c] = <<>>]
    /\ pc' = [pc EXCEPT ![c] = "groq"]

\* StartGemini without line 185: the text gathered so far is kept
StartGemini_keeps_text(c, at) ==
    /\ calls' = [calls EXCEPT ![c] = Seen(c, Append(@, "gemini"), @)]
    /\ request' = [request EXCEPT ![c] =
                      Seen(c, GeminiCall(conversation_history, origin), @)]
    /\ UNCHANGED full_response
    /\ pc' = [pc EXCEPT ![c] = at]

\* generate_gemini_response up to the stream (lines 169-185); pc is "gemini"
\* for the call of line 249 and "fallback" for the call of line 269
StartGemini(c, at) ==
    /\ calls' = [calls EXCEPT ![c] = Seen(c, Append(@, "gemini"), @)]
    /\ request' = [request EXCEPT ![c] =
                      Seen(c, GeminiCall(conversation_history, origin), @)]
    /\ full_response' = [full_response EXCEPT ![c] = <<>>]
    /\ pc' = [pc EXCEPT ![c] = at]

\* StartGenerate with the tests of lines 244 and 247 exchanged
StartGenerate_prefers_gemini(c) ==
    /\ pc[c] = "thinking"
    /\ IF gemini_model
       THEN StartGemini(c, "gemini") /\ UNCHANGED out
       ELSE IF groq_client
       THEN StartGroq(c) /\ UNCHANGED out
       ELSE /\ full_response' = [full_response EXCEPT ![c] = <<>>]
            /\ out' = [out EXCEPT ![c] =
                          Seen(c, send_message(@, CompleteFrame(<<>>)), @)]
            /\ pc' = [pc EXCEPT ![c] = "complete"]
            /\ UNCHANGED <<calls, request>>
    /\ UNCHANGED <<config, history, active_connections, exc, rx, last_frame, turn_config,
                   nchunks, produced, failed>>

\* lines 241-249: the send of the thinking frame has returned
StartGenerate(c) ==
    /\ pc[c] = "thinking"
    /\ IF groq_client
       THEN StartGroq(c) /\ UNCHANGED out
       ELSE IF gemini_model
       THEN StartGemini(c, "gemini") /\ UNCHANGED out
       ELSE \* neither branch: full_response is still "" at line 252
            /\ full_response' = [full_response EXCEPT ![c] = <<>>]
            /\ out' = [out EXCEPT ![c] =
                          Seen(c, send_message(@, CompleteFrame(<<>>)), @)]
            /\ pc' = [pc EXCEPT ![c] = "complete"]
            /\ UNCHANGED <<calls, request>>
    /\ UNCHANGED <<config, history, active_connections, exc, rx, last_frame, turn_config,
                   nchunks, produced, failed>>

\* RelayChunk with = for the += of lines 155 and 188: the text is the last chunk
RelayChunk_overwrites(c, provider, content) ==
    /\ nchunks' = [nchunks EXCEPT ![c] = @ + 1]
    /\ produced' = [produced EXCEPT ![c] =
                       Seen(c, Append(@, [provider |-> provider, content |-> content]), @)]
    /\ IF content # <<>>
       THEN /\ full_response' = [full_response EXCEPT ![c] = content]
            /\ out' = [out EXCEPT ![c] =
                          Seen(c, send_message(@, TokenFrame(content)), @)]
       ELSE UNCHANGED <<full_response, out>>
    /\ UNCHANGED <<config, history, active_connections, pc, exc, rx, last_frame,
                   turn_config, calls, request, failed>>

\* lines 152-159 and 186-193: one chunk of the running stream
RelayChunk(c, provider, content) ==
    /\ nchunks' = [nchunks EXCEPT ![c] = @ + 1]
    /\ produced' = [produced EXCEPT ![c] =
                       Seen(c, Append(@, [provider |-> provider, content |-> content]), @)]
    /\ IF content # <<>>
       THEN /\ full_response' = [full_response EXCEPT ![c] = @ \o content]
            /\ out' = [out EXCEPT ![c] =
                          Seen(c, send_message(@, TokenFrame(content)), @)]
       ELSE UNCHANGED <<full_response, out>>
    /\ UNCHANGED <<config, history, active_connections, pc, exc, rx, last_frame,
                   turn_config, calls, request, failed>>

GroqChunk(c, content) ==
    /\ pc[c] = "groq"
    /\ RelayChunk(c, "groq", content)

\* An empty chunk.text reaches no await; it is its own step here, which changes
\* no program variable.
GeminiChunk(c, content) ==
    /\ pc[c] \in {"gemini", "fallback"}
    /\ RelayChunk(c, "gemini", content)

\* lines 251-255 and 270-273: the stream is exhausted, the generator returns
\* full_response and the complete frame is sent
SendComplete(c, at) ==
    /\ out' = [out EXCEPT ![c] =
                  Seen(c, send_message(@, CompleteFrame(full_response[c])), @)]
    /\ pc' = [pc EXCEPT ![c] = at]
    /\ request' = [request EXCEPT ![c] = NoRequest]
    /\ UNCHANGED <<config, history, active_connections, full_response, exc, rx,
                   last_frame, turn_config, nchunks, calls, produced, failed>>

GroqReturn(c) ==
    /\ pc[c] = "groq"
    /\ SendComplete(c, "complete")

GeminiReturn(c) ==
    /\ pc[c] \in {"gemini", "fallback"}
    /\ SendComplete(c, IF pc[c] = "gemini" THEN "complete" ELSE "fb_complete")

\* AppendAssistant without the continue of line 278: after the fallback's reply
\* is stored, control falls through to the send of line 282.
AppendAssistant_no_continue(c) ==
    /\ pc[c] \in {"complete", "fb_complete"}
    /\ conversation_history' =
           Append(conversation_history, AssistantMessage(full_response[c]))
    /\ origin' = Append(origin, c)
    /\ pc' = [pc EXCEPT ![c] = "receive"]
    /\ out' = [out EXCEPT ![c] =
                  IF pc[c] = "fb_complete"
                  THEN Seen(c, send_message(@, GenerationError(exc[c])), @)
                  ELSE @]
    /\ UNCHANGED <<config, active_connections, full_response, exc, rx,
                   last_frame, turn>>

\* AppendAssistant without lines 258-261 and 274-277: the reply is not stored
AppendAssistant_forgets(c) ==
    /\ pc[c] \in {"complete", "fb_complete"}
    /\ pc' = [pc EXCEPT ![c] = "receive"]
    /\ UNCHANGED <<config, history, active_connections, full_response, exc, out,
                   rx, last_frame, turn>>

\* lines 257-261 and 274-278: the send of the complete frame has returned
AppendAssistant(c) ==
    /\ pc[c] \in {"complete", "fb_complete"}
    /\ conversation_history' =
           Append(conversation_history, AssistantMessage(full_response[c]))
    /\ origin' = Append(origin, c)
    /\ pc' = [pc EXCEPT ![c] = "receive"]
    /\ UNCHANGED <<config, active_connections, full_response, exc, out, rx,
                   last_frame, turn>>

\* SendError with the exception raised again after the send: the handler of
\* line 303 ends the coroutine
SendError_ends_session(c, e) ==
    /\ out' = [out EXCEPT ![c] = Seen(c, send_message(@, GenerationError(e)), @)]
    /\ pc' = [pc EXCEPT ![c] = "closed"]
    /\ request' = [request EXCEPT ![c] = NoRequest]

\* lines 282-285: the error frame carries str(e) of the exception of line 263
SendError(c, e) ==
    /\ out' = [out EXCEPT ![c] = Seen(c, send_message(@, GenerationError(e)), @)]
    /\ pc' = [pc EXCEPT ![c] = "receive"]
    /\ request' = [request EXCEPT ![c] = NoRequest]

\* HandleException with line 266 testing gemini_model alone: Gemini is the
\* fallback of every failure, its own included
HandleException_retries_gemini(c, provider, e) ==
    /\ failed' = [failed EXCEPT ![c] = Seen(c, @ \cup {provider}, @)]
    /\ exc' = [exc EXCEPT ![c] = e]
    /\ IF gemini_model
       THEN StartGemini(c, "fallback") /\ UNCHANGED out
       ELSE SendError(c, e) /\ UNCHANGED <<calls, full_response>>
    /\ UNCHANGED <<config, history, active_connections, rx, last_frame,
                   turn_config, nchunks, produced>>

\* lines 263-285: an exception e left the try block of line 241
HandleException(c, provider, e) ==
    /\ failed' = [failed EXCEPT ![c] = Seen(c, @ \cup {provider}, @)]
    /\ exc' = [exc EXCEPT ![c] = e]
    /\ IF groq_client /\ gemini_model
       THEN StartGemini(c, "fallback") /\ UNCHANGED out
       ELSE SendError(c, e) /\ UNCHANGED <<calls, full_response>>
    /\ UNCHANGED <<config, history, active_connections, rx, last_frame,
                   turn_config, nchunks, produced>>

\* the create call or the stream raises (lines 162-163 re-raise)
GroqRaise(c) ==
    /\ pc[c] = "groq"
    /\ HandleException(c, "groq", "groq_error")

\* generate_content or the stream raises (lines 196-197 re-raise)
GeminiRaise(c) ==
    /\ pc[c] = "gemini"
    /\ HandleException(c, "gemini", "gemini_error")

\* lines 279-285: the fallback raises too; e is still the first exception
FallbackRaise(c) ==
    /\ pc[c] = "fallback"
    /\ failed' = [failed EXCEPT ![c] = Seen(c, @ \cup {"gemini"}, @)]
    /\ SendError(c, exc[c])
    /\ UNCHANGED <<config, history, active_connections, full_response, exc, rx,
                   last_frame, turn_config, nchunks, calls, produced>>

\* ------------------------------------------------------------ HTTP endpoints
\* provider.lower()
Lower(provider) == IF provider = "Groq" THEN "groq" ELSE provider

\* POST /api/configure, lines 115-128.  The module imports AsyncGroq only
\* (line 19): evaluating the name Groq at line 121 raises NameError, which the
\* handler of line 127 turns into HTTP 400 before groq_client is assigned.
\* genai.configure and GenerativeModel store their arguments.
configure_api(api_key, provider) ==
    /\ IF Lower(provider) = "groq"
       THEN /\ configure_response' = "400"
            /\ UNCHANGED <<groq_client, gemini_model>>
       ELSE /\ gemini_model' = TRUE
            /\ configure_response' = "Gemini configured successfully"
            /\ UNCHANGED groq_client
    /\ UNCHANGED <<history, active_connections, pc, full_response, exc, out, rx,
                   last_frame, turn, grew, tally>>

\* DELETE /api/conversation, lines 312-316
clear_conversation ==
    /\ conversation_history' = <<>>
    /\ origin' = <<>>
    /\ UNCHANGED <<config, active_connections, pc, full_response, exc, out, rx,
                   last_frame, turn, grew, tally>>

\* GET /api/conversation, lines 307-310: what the endpoint returns now
get_conversation == [history |-> conversation_history]

\* GET /api/health, lines 104-113 (without the timestamp)
health_check ==
    [status |-> "healthy", groq_configured |-> groq_client,
     gemini_configured |-> gemini_model,
     active_connections |-> Len(active_connections)]

\* --------------------------------------------------------------------- Next
\* grew[c]: what c's step added to the length of the history, summed since
\* c's last inbound frame
Account(c) ==
    grew' = [grew EXCEPT ![c] =
                Seen(c, (IF rx'[c] # rx[c] THEN 0 ELSE @)
                        + Len(conversation_history') - Len(conversation_history), @)]

\* the frames of type t that c's step sends
Sends(c, t) ==
    LET new == IF rx'[c] # rx[c] THEN out'[c]
               ELSE SubSeq(out'[c], Len(out[c]) + 1, Len(out'[c]))
    IN  Len(SelectSeq(new, LAMBDA m : m.type = t))

\* c's step takes in a message frame with content
TakesMessage(c) ==
    /\ rx'[c] # rx[c]
    /\ last_frame'[c].json = "object" /\ GetType(last_frame'[c]) = "message"
    /\ GetContent(last_frame'[c]) # <<>>

\* tally[c]: the non-empty messages c has sent, and what its turns have sent
\* and stored in answer to them
Tally(c, counted) ==
    tally' = IF c \notin counted THEN tally
             ELSE [tally EXCEPT ![c] =
                     [turns |-> @.turns + (IF TakesMessage(c) THEN 1 ELSE 0),
                      thinking |-> @.thinking + Sends(c, "thinking"),
                      complete |-> @.complete + Sends(c, "complete"),
                      errors |-> @.errors
                          + (IF GetContent(last_frame'[c]) # <<>>
                             THEN Sends(c, "error") ELSE 0),
                      assistant |-> @.assistant
                          + (IF /\ Len(conversation_history')
                                      = Len(conversation_history) + 1
                                /\ conversation_history'[Len(conversation_history')].role
                                      = "assistant"
                             THEN 1 ELSE 0)]]

\* connections in a turn that may still append its reply
InFlight == Cardinality({c \in Conns : pc[c] \in Generating})

\* room for a user message and for the replies still to come
HistoryRoom(most) == Len(conversation_history) + InFlight + 2 <= most

\* what a step of c's coroutine leaves in the history variables
Observe(c, counted) ==
    Account(c) /\ Tally(c, counted) /\ UNCHANGED configure_request

TurnRoom(c, counted) == c \in counted => tally[c].turns < MaxTurns

ChunkRoom(c, most) == nchunks[c] < most

\* the steps of the coroutines of the connections in C
Chat(C, counted, chunks, maxHistory, maxChunks) ==
    \/ \E c \in C : Connect(c) /\ Observe(c, counted)
    \/ \E c \in C : PeerDisconnect(c) /\ Observe(c, counted)
    \/ \E c \in C : TransportError(c) /\ Observe(c, counted)
    \/ \E c \in C, f \in InboundFrames : ReceiveUndecodable(c, f) /\ Observe(c, counted)
    \/ \E c \in C, f \in InboundFrames :
          /\ GetContent(f) # <<>> => HistoryRoom(maxHistory) /\ TurnRoom(c, counted)
          /\ ReceiveMessage(c, f) /\ Observe(c, counted)
    \/ \E c \in C, f \in InboundFrames : ReceiveReset(c, f) /\ Observe(c, counted)
    \/ \E c \in C, f \in InboundFrames, now \in Timestamps :
          ReceivePing(c, f, now) /\ Observe(c, counted)
    \/ \E c \in C, f \in InboundFrames : ReceiveOther(c, f) /\ Observe(c, counted)
    \/ \E c \in C : StartGenerate(c) /\ Observe(c, counted)
    \/ \E c \in C, content \in chunks :
          ChunkRoom(c, maxChunks) /\ GroqChunk(c, content) /\ Observe(c, counted)
    \/ \E c \in C, content \in chunks :
          ChunkRoom(c, maxChunks) /\ GeminiChunk(c, content) /\ Observe(c, counted)
    \/ \E c \in C : GroqReturn(c) /\ Observe(c, counted)
    \/ \E c \in C : GeminiReturn(c) /\ Observe(c, counted)
    \/ \E c \in C : AppendAssistant(c) /\ Observe(c, counted)
    \/ \E c \in C : GroqRaise(c) /\ Observe(c, counted)
    \/ \E c \in C : GeminiRaise(c) /\ Observe(c, counted)
    \/ \E c \in C : FallbackRaise(c) /\ Observe(c, counted)

\* the HTTP requests; the requests to /api/configure are kept where recorded
Http(recorded) ==
    \/ \E k \in ApiKeys, p \in ProviderNames :
          /\ configure_api(k, p)
          /\ configure_request' = IF recorded THEN [api_key |-> k, provider |-> p]
                                  ELSE configure_request
    \/ clear_conversation /\ UNCHANGED configure_request

\* One client, and the HTTP endpoints called at any moment.
Next == Chat(Observed, {}, Chunks, MaxHistory, MaxChunks) \/ Http(FALSE)

Spec == Init /\ [][Next]_vars

\* Two clients at once, on the one event loop.
NextShared == Chat(Conns, {}, SharedChunks, SharedMaxHistory, SharedMaxChunks)

SpecShared == Init /\ [][NextShared]_vars

\* One client whose turns are counted from its connection on, and the HTTP
\* endpoints with the configure requests recorded.
NextRecorded ==
    \/ Chat(Observed, Observed, SharedChunks, TurnsMaxHistory, SharedMaxChunks)
    \/ Http(TRUE)

SpecRecorded == Init /\ [][NextRecorded]_vars

\* Two clients coming and going, each with short turns.
NextRegistry ==
    Chat(Conns, {}, RegistryChunks, RegistryMaxHistory, RegistryMaxChunks)

SpecRegistry == Init /\ [][NextRegistry]_vars

\* the steps of c's coroutine between the thinking frame and the next
\* receive_json: each is the resumption of an await that has completed
TurnStep(c, chunks, maxChunks) ==
    \/ StartGenerate(c) /\ Observe(c, {})
    \/ \E content \in chunks :
          ChunkRoom(c, maxChunks) /\ GroqChunk(c, content) /\ Observe(c, {})
    \/ \E content \in chunks :
          ChunkRoom(c, maxChunks) /\ GeminiChunk(c, content) /\ Observe(c, {})
    \/ GroqReturn(c) /\ Observe(c, {})
    \/ GeminiReturn(c) /\ Observe(c, {})
    \/ AppendAssistant(c) /\ Observe(c, {})
    \/ GroqRaise(c) /\ Observe(c, {})
    \/ GeminiRaise(c) /\ Observe(c, {})
    \/ FallbackRaise(c) /\ Observe(c, {})

\* One client and the HTTP endpoints, where the event loop resumes every
\* coroutine whose await has completed, every send completes, and every
\* provider stream ends or raises after at most LiveMaxChunks chunks.
NextLive ==
    \/ Chat(Observed, {}, SharedChunks, LiveMaxHistory, LiveMaxChunks)
    \/ Http(FALSE)

SpecLive ==
    /\ Init /\ [][NextLive]_vars
    /\ \A c \in Observed : WF_vars(TurnStep(c, SharedChunks, LiveMaxChunks))

TypeOK ==
    /\ groq_client \in BOOLEAN /\ gemini_model \in BOOLEAN
    /\ Len(conversation_history) <= TurnsMaxHistory
    /\ Len(origin) = Len(conversation_history)
    /\ \A c \in Conns : pc[c] \in Generating \cup {"connecting", "receive", "closed"}

\* ------------------------------------------------------- reading the traffic
IsMessage(f) == f.json = "object" /\ GetType(f) = "message"
IsReset(f) == f.json = "object" /\ GetType(f) = "reset"
IsPing(f) == f.json = "object" /\ GetType(f) = "ping"

Last(s) == s[Len(s)]
Terminal == {"complete", "error"}

\* the token frames among the frames sent, in the order sent
TokenFrames(sent) == SelectSeq(sent, LAMBDA m : m.type = "token")

\* the chunks with text that provider p produced for c, in the order produced
ChunksWithText(c, p) ==
    SelectSeq(produced[c], LAMBDA k : k.provider \in p /\ k.content # <<>>)

RECURSIVE Concat(_)
Concat(chunks) ==
    IF chunks = <<>> THEN <<>> ELSE Head(chunks).content \o Concat(Tail(chunks))

\* c's reaction to its last frame is over
TurnOver(c) == pc[c] \in {"receive", "closed"}

\* ----------------------------------------------------------------------- C1
\* C1: the frames sent in reaction to a message frame are, after the thinking
\* acknowledgement that opens a turn which reaches a provider, zero or more
\* token frames and then exactly one terminal frame (complete or error): no
\* frame follows the terminal frame, so a turn never has both; no terminal
\* frame is sent while a stream runs and one has been sent when the turn is
\* over; the token frames carry the providers' chunks with text, in the order
\* produced.
C1_TurnFrames ==
    \A c \in Observed :
        IsMessage(last_frame[c]) =>
            LET sent == out[c]
                tokens == TokenFrames(sent)
                texts == ChunksWithText(c, {"groq", "gemini"})
            IN  /\ \A i \in 1..Len(sent) :
                      \/ sent[i].type = "token"
                      \/ i = 1 /\ sent[i].type = "thinking"
                      \/ i = Len(sent) /\ sent[i].type \in Terminal
                /\ TurnOver(c) \/ pc[c] \in {"complete", "fb_complete"}
                      => sent # <<>> /\ Last(sent).type \in Terminal
                /\ pc[c] \in {"thinking", "groq", "gemini", "fallback"}
                      => \A i \in 1..Len(sent) : sent[i].type \notin Terminal
                /\ Len(tokens) = Len(texts)
                /\ \A i \in 1..Len(tokens) : tokens[i].content = texts[i].content

\* a finished turn with two different tokens before its complete frame
C1_Witness ==
    \E c \in Observed :
        /\ pc[c] = "receive" /\ IsMessage(last_frame[c]) /\ Len(out[c]) = 4
        /\ out[c][2].type = "token" /\ out[c][3].type = "token"
        /\ out[c][2].content # out[c][3].content
        /\ out[c][4].type = "complete"

\* ----------------------------------------------------------------------- C2
\* C2: when Groq has raised, at any point of its stream, and the Gemini
\* fallback runs to its end, the complete frame carries exactly the text of
\* Gemini's chunks, and the assistant message then appended to the history is
\* exactly that text: nothing of what Groq produced is in either.
C2_FallbackText ==
    [][\A c \in Observed :
          LET secondary == Concat(ChunksWithText(c, {"gemini"})) IN
          /\ pc[c] = "fallback" /\ pc'[c] = "fb_complete"
                => Last(out'[c]) = CompleteFrame(secondary)
          /\ pc[c] = "fb_complete" /\ pc'[c] = "receive"
                => /\ Last(out[c]) = CompleteFrame(secondary)
                   /\ conversation_history' =
                          Append(conversation_history, AssistantMessage(secondary))
      ]_vars

\* Groq relayed a token and raised, Gemini answered with other text, and the
\* history ends with Gemini's text alone
C2_Witness ==
    \E c \in Observed :
        /\ pc[c] = "receive" /\ calls[c] = <<"groq", "gemini">>
        /\ ChunksWithText(c, {"groq"}) # <<>>
        /\ Concat(ChunksWithText(c, {"gemini"})) # <<>>
        /\ Concat(ChunksWithText(c, {"gemini"})) # Concat(ChunksWithText(c, {"groq"}))
        /\ Last(out[c]) = CompleteFrame(Concat(ChunksWithText(c, {"gemini"})))
        /\ conversation_history # <<>>
        /\ Last(conversation_history) =
               AssistantMessage(Concat(ChunksWithText(c, {"gemini"})))

\* ----------------------------------------------------------------------- C3
\* C3 as stated: when a message turn is over, the steps of that turn have made
\* the history longer by 2 if it ended with a complete frame, and by 1 if it
\* did not, the turn of an empty message included.
C3_AsStated ==
    \A c \in Observed :
        pc[c] = "receive" /\ IsMessage(last_frame[c]) /\ out[c] # <<>> =>
            grew[c] = IF Last(out[c]).type = "complete" THEN 2 ELSE 1

\* C3, amended: when a message turn is over, the steps of that turn have made
\* the history longer by 2 if it ended with a complete frame, by 1 if it ended
\* with an error frame after a non-empty message, and by 0 if the message was
\* empty.
C3_Growth ==
    \A c \in Observed :
        pc[c] = "receive" /\ IsMessage(last_frame[c]) =>
            /\ out[c] # <<>>
            /\ grew[c] = IF Last(out[c]).type = "complete" THEN 2
                         ELSE IF GetContent(last_frame[c]) # <<>> THEN 1
                         ELSE 0

\* a turn that succeeded and grew the history by two, the history being the
\* user message and the reply
C3_Witness ==
    \E c \in Observed :
        /\ pc[c] = "receive" /\ IsMessage(last_frame[c])
        /\ Last(out[c]).type = "complete" /\ grew[c] = 2
        /\ Len(conversation_history) = 2
        /\ conversation_history[1].role = "user"
        /\ conversation_history[2].role = "assistant"

\* ----------------------------------------------------------------------- C4
\* C4: what a connection's turn submits to a provider was appended by that
\* connection's own frames and replies: no other connection's message or
\* reply is in it.
C4_OwnHistory ==
    \A c \in Observed :
        \A i \in 1..Len(request[c].from) : request[c].from[i] = c

\* ----------------------------------------------------------------------- C5
\* a provider raised in this step of c
ProviderRaises(c) == failed'[c] # failed[c] /\ failed[c] \subseteq failed'[c]
\* c's coroutine ends in this step
Closes(c) == pc[c] # "closed" /\ pc'[c] = "closed"
\* what every step in which a provider raises does: the connection stays
\* registered and either the fallback starts or the turn ends with an error
\* frame and the coroutine is back at receive_json
FailureIsReported(c) ==
    ProviderRaises(c) =>
        /\ pc'[c] \in {"fallback", "receive"}
        /\ active_connections' = active_connections
        /\ \E i \in 1..Len(active_connections) : active_connections[i] = c
        /\ pc'[c] = "receive" =>
              /\ Last(out'[c]).type = "error"
              /\ Len(out'[c]) = Len(out[c]) + 1

\* C5 as stated: a provider failure never ends the session but ends the turn
\* with an error frame, the connection registered and back at receive; and the
\* session closes only when the transport fails or the peer leaves, that is,
\* never in reaction to a frame that arrived.
C5_AsStated ==
    [][\A c \in Observed :
          /\ FailureIsReported(c)
          /\ Closes(c) => rx'[c] = rx[c]
      ]_vars

\* ----------------------------------------------------------------------- C6
\* C6: in every turn a provider is invoked only in its place in the routing
\* order. Groq is invoked only when it is configured and nothing was invoked
\* in the turn before it; Gemini is invoked either first, when Groq is not
\* configured, or second, after Groq was invoked and raised in this turn; and
\* no turn invokes more than these two.
C6_RoutingOrder ==
    [][\A c \in Observed :
          calls'[c] # calls[c] /\ calls'[c] # <<>> =>
              /\ calls'[c] = Append(calls[c], Last(calls'[c]))
              /\ Last(calls'[c]) = "groq" => groq_client /\ calls[c] = <<>>
              /\ Last(calls'[c]) = "gemini" =>
                    \/ ~groq_client /\ calls[c] = <<>>
                    \/ groq_client /\ calls[c] = <<"groq">> /\ "groq" \in failed'[c]
      ]_vars

\* both providers were invoked in one turn, Groq first, and Groq had raised
C6_Witness ==
    \E c \in Observed :
        /\ calls[c] = <<"groq", "gemini">>
        /\ "groq" \in failed[c]
        /\ groq_client /\ gemini_model

\* ----------------------------------------------------------------------- C7
\* C7: when a non-empty message frame arrives and neither provider is
\* configured, the reaction is one error frame and nothing else; the history
\* is the old history with the user message of the frame appended, no provider
\* is invoked, and the connection stays registered and at receive_json.
C7_NoProvider ==
    [][\A c \in Observed :
          /\ rx'[c] # rx[c]
          /\ last_frame'[c].json = "object" /\ IsMessage(last_frame'[c])
          /\ GetContent(last_frame'[c]) # <<>>
          /\ ~groq_client /\ ~gemini_model
          => /\ out'[c] = <<NoProviderError>>
             /\ conversation_history' =
                   Append(conversation_history,
                          UserMessage(GetContent(last_frame'[c])))
             /\ calls'[c] = <<>> /\ request'[c] = NoRequest
             /\ pc[c] = "receive" /\ pc'[c] = "receive"
             /\ active_connections' = active_connections
             /\ \E i \in 1..Len(active_connections) : active_connections[i] = c
      ]_vars

\* a message was answered with the one error frame of line 229, and the user
\* message is the last entry of the history
C7_Witness ==
    \E c \in Observed :
        /\ ~groq_client /\ ~gemini_model
        /\ pc[c] = "receive" /\ IsMessage(last_frame[c])
        /\ out[c] = <<NoProviderError>>
        /\ conversation_history # <<>>
        /\ Last(conversation_history) = UserMessage(GetContent(last_frame[c]))

\* ----------------------------------------------------------------------- C8
\* no message frame has been taken in since the history was last emptied
NoMessageSince == \A i \in 1..Len(conversation_history) :
                     conversation_history[i].role # "user"

\* C8: a reset frame is answered with one reset_complete frame and the history
\* is empty afterwards, that is, until the next message frame is taken in,
\* whatever the other connections are doing.
C8_ResetEmpties ==
    \A c \in Observed :
        pc[c] = "receive" /\ last_frame[c].json = "object" /\ IsReset(last_frame[c])
            => /\ out[c] = <<ResetCompleteFrame>>
               /\ NoMessageSince => conversation_history = <<>>

\* ----------------------------------------------------------------------- C9
\* C9: a ping frame is answered with one pong frame carrying the timestamp,
\* and the step changes nothing else: not the history, not the provider
\* configuration, not the registry, not the session's place in its loop; and
\* no provider is invoked.
C9_PingPong ==
    [][\A c \in Observed :
          /\ rx'[c] # rx[c]
          /\ last_frame'[c].json = "object" /\ IsPing(last_frame'[c])
          => /\ \E now \in Timestamps : out'[c] = <<PongFrame(now)>>
             /\ conversation_history' = conversation_history
             /\ config' = config
             /\ active_connections' = active_connections
             /\ pc[c] = "receive" /\ pc' = pc
             /\ calls'[c] = <<>> /\ request'[c] = NoRequest
      ]_vars

\* a ping was answered while the history held a finished turn
C9_Witness ==
    \E c \in Observed :
        /\ pc[c] = "receive" /\ IsPing(last_frame[c])
        /\ \E now \in Timestamps : out[c] = <<PongFrame(now)>>
        /\ Len(conversation_history) = 2

\* ---------------------------------------------------------------------- C10
\* C10: whenever a request to a provider is under way, it was built from at
\* most ten messages, the last ones of the history in their order, and the user
\* message of the turn under way is among them; and the conversation query
\* returns the whole history.
C10_Window ==
    \A c \in Observed :
        /\ get_conversation.history = conversation_history
        /\ request[c].provider # "none" =>
              /\ Len(request[c].window) <= HistoryWindow
              /\ \E i \in 1..Len(request[c].window) :
                    /\ request[c].window[i] = UserMessage(GetContent(last_frame[c]))
                    /\ request[c].from[i] = c

\* ---------------------------------------------------------------------- C11
\* C11: the step that takes in a message frame whose content is empty (or
\* absent) sends one error frame and changes nothing: the history, the
\* provider configuration, the registry and every connection's place in its
\* loop are as before, no thinking frame is sent and no provider is invoked.
C11_EmptyMessage ==
    [][\A c \in Observed :
          /\ rx'[c] # rx[c]
          /\ last_frame'[c].json = "object" /\ IsMessage(last_frame'[c])
          /\ GetContent(last_frame'[c]) = <<>>
          => /\ out'[c] = <<EmptyMessageError>>
             /\ conversation_history' = conversation_history
             /\ config' = config
             /\ active_connections' = active_connections
             /\ pc[c] = "receive" /\ pc' = pc
             /\ calls'[c] = <<>> /\ request'[c] = NoRequest
      ]_vars

\* an empty message was answered with the error frame of line 215 while the
\* history held a finished turn, and it still holds exactly that
C11_Witness ==
    \E c \in Observed :
        /\ pc[c] = "receive" /\ IsMessage(last_frame[c])
        /\ GetContent(last_frame[c]) = <<>>
        /\ out[c] = <<EmptyMessageError>>
        /\ Len(conversation_history) = 2 /\ grew[c] = 0

\* ---------------------------------------------------------------------- C12
\* C12: whenever a connection is between turns and none of the N non-empty
\* messages it has sent so far was answered with an error frame, its turns
\* have sent exactly N thinking frames and exactly N complete frames and have
\* stored exactly N assistant messages; and in the turn just finished the
\* thinking frame came first, the complete frame last, and only token frames
\* in between.
C12_CountsPerTurn ==
    \A c \in Observed :
        TurnOver(c) /\ tally[c].errors = 0 =>
            /\ tally[c].thinking = tally[c].turns
            /\ tally[c].complete = tally[c].turns
            /\ tally[c].assistant = tally[c].turns
            /\ IsMessage(last_frame[c]) /\ GetContent(last_frame[c]) # <<>> =>
                  /\ Len(out[c]) >= 2
                  /\ out[c][1].type = "thinking"
                  /\ Last(out[c]).type = "complete"
                  /\ \A i \in 2..(Len(out[c]) - 1) : out[c][i].type = "token"

\* two turns in a row have succeeded, the second with a token, and the
\* history holds both exchanges
C12_Witness ==
    \E c \in Observed :
        /\ pc[c] = "receive" /\ tally[c].errors = 0
        /\ tally[c].turns = MaxTurns /\ tally[c].assistant = MaxTurns
        /\ tally[c].thinking = MaxTurns /\ tally[c].complete = MaxTurns
        /\ Len(out[c]) = 3 /\ out[c][2].type = "token"
        /\ Len(conversation_history) = 2 * MaxTurns

\* ---------------------------------------------------------------------- C13
\* c has connected and its coroutine has not returned
Open(c) == pc[c] \notin {"connecting", "closed"}
\* the entries of the registry that are c
Entries(c) == Cardinality({i \in 1..Len(active_connections) : active_connections[i] = c})

\* C13: at every moment the registry holds each open connection once and no
\* other, and the count that health reports is the number of open
\* connections; the step that connects c appends c, the step that ends c's
\* coroutine removes c's one entry and leaves the others, and once closed a
\* connection stays closed: no frame is taken in or sent for it any more.
C13_Registry ==
    /\ [](/\ \A c \in Conns : Entries(c) = IF Open(c) THEN 1 ELSE 0
          /\ health_check.active_connections = Cardinality({c \in Conns : Open(c)}))
    /\ [][\A c \in Conns :
             /\ pc[c] = "connecting" /\ pc'[c] # "connecting"
                   => active_connections' = Append(active_connections, c)
             /\ Closes(c)
                   => /\ active_connections' = ListRemove(active_connections, c)
                      /\ Len(active_connections') = Len(active_connections) - 1
             /\ pc[c] = "closed"
                   => /\ pc'[c] = "closed"
                      /\ rx'[c] = rx[c] /\ last_frame'[c] = last_frame[c]
                      /\ out'[c] = out[c]
       ]_vars

\* one connection has had a turn and has gone, the other is still open and is
\* the registry's only entry
C13_Witness ==
    /\ pc[1] = "closed" /\ IsMessage(last_frame[1]) /\ Len(out[1]) >= 2
    /\ pc[2] = "thinking"
    /\ active_connections = <<2>>
    /\ health_check.active_connections = 1

\* ---------------------------------------------------------------------- C14
\* a new request to POST /api/configure is answered in this step
Configures == configure_request' # configure_request
\* the answers of lines 122 and 126
Succeeded(response) ==
    response \in {"Groq configured successfully", "Gemini configured successfully"}

\* C14: a request to configure that names groq, in any case of the letters,
\* with a usable key is answered with success and leaves Groq configured, as
\* health then reports; and whenever a request was answered with success for
\* Gemini, Gemini is configured.
C14_GroqConfigurable ==
    [][/\ Configures /\ Lower(configure_request'.provider) = "groq"
          /\ configure_request'.api_key = "good-key"
          => /\ configure_response' = "Groq configured successfully"
             /\ groq_client' /\ health_check'.groq_configured
       /\ Configures /\ configure_response' = "Gemini configured successfully"
          => gemini_model' /\ health_check'.gemini_configured
      ]_vars

\* ---------------------------------------------------------------------- C15
\* C15: a request to configure with a bad key, or with a provider name that is
\* neither groq nor gemini, is answered with a failure and leaves both
\* provider clients as they were.
C15_BadRequestRejected ==
    [][/\ Configures
       /\ \/ configure_request'.api_key = "bad-key"
          \/ Lower(configure_request'.provider) \notin {"groq", "gemini"}
       => /\ ~Succeeded(configure_response')
          /\ groq_client' = groq_client /\ gemini_model' = gemini_model
      ]_vars

\* ---------------------------------------------------------------------- C16
\* the frames of type t among those sent
FramesOf(sent, t) == SelectSeq(sent, LAMBDA m : m.type = t)

\* C16: a turn invokes no provider, Groq alone, Gemini alone, or Groq and then
\* Gemini: never more than two streams, never one provider twice, never Groq
\* after Gemini.  The step in which a provider raises and no fallback follows
\* sends one error frame and leaves the history as it was; and a turn that is
\* over after its last provider raised has sent exactly one error frame, no
\* complete frame, and has stored the user message only.
C16_OneFallback ==
    /\ [](\A c \in Observed :
            /\ calls[c] \in {<<>>, <<"groq">>, <<"gemini">>, <<"groq", "gemini">>}
            /\ TurnOver(c) /\ calls[c] # <<>> /\ Last(calls[c]) \in failed[c]
                  => /\ Len(FramesOf(out[c], "error")) = 1
                     /\ Last(out[c]).type = "error"
                     /\ FramesOf(out[c], "complete") = <<>>
                     /\ grew[c] = 1)
    /\ [][\A c \in Observed :
             ProviderRaises(c) /\ pc'[c] # "fallback"
                => /\ pc'[c] = "receive"
                   /\ out'[c] = Append(out[c], GenerationError(exc'[c]))
                   /\ conversation_history' = conversation_history
                   /\ calls'[c] = calls[c]
       ]_vars

\* Groq and then Gemini were invoked and both raised: the turn is over with
\* the error frame that carries Groq's exception, and the history holds the
\* user message alone
C16_Witness ==
    \E c \in Observed :
        /\ pc[c] = "receive" /\ calls[c] = <<"groq", "gemini">>
        /\ failed[c] = {"groq", "gemini"}
        /\ Last(out[c]) = GenerationError("groq_error")
        /\ Len(conversation_history) = 1
        /\ conversation_history[1].role = "user"

\* ---------------------------------------------------------------------- C17
\* C17: the providers of a turn are those of the configuration as it was when
\* the turn's message was taken in.  The first provider invoked is Groq if
\* Groq was configured then and Gemini otherwise; the fallback is taken if and
\* only if both were configured then, whatever was configured since.
C17_ConfigReadOnce ==
    [][\A c \in Observed :
          LET was == turn_config[c] IN
          /\ calls'[c] # calls[c] /\ calls[c] = <<>> =>
                calls'[c] = IF was.groq THEN <<"groq">> ELSE <<"gemini">>
          /\ ProviderRaises(c) =>
                (pc'[c] = "fallback") = (was.groq /\ was.gemini /\ calls[c] = <<"groq">>)
      ]_vars

\* ---------------------------------------------------------------------- C18
\* a frame that is no JSON object, has no type, or has a type the protocol
\* does not name
Unrecognized(f) ==
    \/ f.json # "object"
    \/ ~f.has_type
    \/ f.type \notin {"message", "reset", "ping"}

\* C18: the step that takes in an unrecognized frame sends nothing and changes
\* nothing: the history, the provider clients, the registry and every
\* connection's place in its loop are as before, so the connection stays open
\* at receive_json, and no provider is invoked.
C18_UnrecognizedIgnored ==
    [][\A c \in Observed :
          rx'[c] # rx[c] /\ Unrecognized(last_frame'[c])
          => /\ out'[c] = <<>>
             /\ conversation_history' = conversation_history
             /\ config' = config
             /\ active_connections' = active_connections
             /\ pc[c] = "receive" /\ pc' = pc
             /\ calls'[c] = <<>> /\ request'[c] = NoRequest
      ]_vars

\* ---------------------------------------------------------------------- C20
\* the token frames of c's turn that relay the stream running now: the last
\* ones sent, as many as that provider's chunks with text
TokensOfLast(c) ==
    LET tokens == TokenFrames(out[c])
        n == IF calls[c] = <<>> THEN 0
             ELSE Len(ChunksWithText(c, {Last(calls[c])}))
    IN  SubSeq(tokens, Len(tokens) - n + 1, Len(tokens))

\* C20: when a provider's stream ends, the complete frame sent carries the
\* contents of the token frames relayed from that stream, concatenated in the
\* order sent, and the assistant message then stored carries the same text;
\* if the turn invoked one provider only, these are all the token frames of
\* the turn.
C20_CompleteIsConcatenation ==
    [][\A c \in Observed :
          LET text == Concat(TokensOfLast(c)) IN
          /\ pc[c] \in {"groq", "gemini", "fallback"}
             /\ pc'[c] \in {"complete", "fb_complete"}
                => /\ out'[c] = Append(out[c], CompleteFrame(text))
                   /\ Len(calls[c]) = 1 => TokensOfLast(c) = TokenFrames(out[c])
          /\ pc[c] \in {"complete", "fb_complete"} /\ pc'[c] = "receive"
                => /\ Last(out[c]) = CompleteFrame(text)
                   /\ conversation_history' =
                          Append(conversation_history, AssistantMessage(text))
      ]_vars

\* a turn without fallback relayed two different tokens, and the reply stored
\* is the two texts joined in the order sent
C20_Witness ==
    \E c \in Observed :
        /\ pc[c] = "receive" /\ Len(calls[c]) = 1 /\ Len(out[c]) = 4
        /\ Last(out[c]) = CompleteFrame(out[c][2].content \o out[c][3].content)
        /\ out[c][2].content # out[c][3].content
        /\ conversation_history # <<>>
        /\ Last(conversation_history)
              = AssistantMessage(out[c][2].content \o out[c][3].content)

\* ---------------------------------------------------------------------- C19
\* c's turn is under way: its message was taken in and the thinking frame sent
InTurn(c) == pc[c] \in Generating
\* c is back at receive_json and the last frame sent to it ended a turn
BackToIdle(c) ==
    /\ pc[c] = "receive"
    /\ IsMessage(last_frame[c])
    /\ out[c] # <<>> /\ Last(out[c]).type \in Terminal

\* C19: every turn under way leads to the connection being back at
\* receive_json with the turn's terminal frame (complete or error) as the last
\* frame sent.
C19_TurnEnds == \A c \in Observed : InTurn(c) ~> BackToIdle(c)

\* a turn has come to its end through the fallback, after Groq's only chunk
C19_Witness ==
    \E c \in Observed :
        /\ BackToIdle(c) /\ calls[c] = <<"groq", "gemini">>
        /\ nchunks[c] = LiveMaxChunks
        /\ Last(out[c]).type = "complete"

====
